---- MODULE Spec2Model ----
(***************************************************************************)
(* Order ledger of the event marketplace backend: the ServiceOrder model   *)
(* (apps/orders/models.py), its serializers and its views.  Money is in    *)
(* whole units of the smallest amount, dates are day numbers.              *)
(***************************************************************************)
EXTENDS Integers, Sequences, FiniteSets, TLC

VARIABLES
    orders,     \* the ServiceOrder table: order id -> row
    nextId,     \* the order ids handed out so far (generate_order_id returns a fresh one)
    catalog,    \* the EventServiceDetail table: detail id -> row
    today,      \* timezone.now().date()
    inflight,   \* requests that loaded their order and have not saved yet
    last        \* the response of the latest request

vars == <<orders, nextId, catalog, today, inflight, last>>

----------------------------------------------------------------------------
(* Bounds of the model *)

MaxDay == 2
MaxAmount == 2
MaxTokens == 2

----------------------------------------------------------------------------
(* Users and their profile slugs (apps/users/models.py) *)

\* The User table in the order the database returns its rows.
UserTable ==
    << [id |-> "c1", first_name |-> "Ann", last_name |-> "Lee", user_type |-> "customer"],
       [id |-> "c2", first_name |-> "ann", last_name |-> "LEE", user_type |-> "customer"],
       [id |-> "s1", first_name |-> "Sam", last_name |-> "Fox", user_type |-> "seller"],
       [id |-> "s2", first_name |-> "SAM", last_name |-> "fox", user_type |-> "seller"] >>

Users == {UserTable[i].id : i \in DOMAIN UserTable}

NotFound == "__invalid__"

\* django.utils.text.slugify on the names of the table: lower-cases the name.
slugify(name) ==
    CASE name \in {"Ann", "ann"} -> "ann"
      [] name \in {"Lee", "LEE"} -> "lee"
      [] name \in {"Sam", "SAM"} -> "sam"
      [] name \in {"Fox", "fox"} -> "fox"
      [] OTHER -> name

get_profile_slug(u) == <<slugify(u.first_name), slugify(u.last_name)>>

\* The order ids generate_order_id draws from.
OrderIds == {1}

\* The server's request handlers that run side by side.
Workers == {"w1", "w2"}

\* The slugs a request URL may carry.
Slugs == {<<"ann", "lee">>, <<"sam", "fox">>, <<"no", "body">>}

Matching(slug, role) ==
    {i \in DOMAIN UserTable :
        UserTable[i].user_type = role /\ get_profile_slug(UserTable[i]) = slug}

\* The first user of the role whose slug matches, or NotFound (404).
get_user_by_slug_or_404(slug, role) ==
    IF Matching(slug, role) = {} THEN NotFound
    ELSE UserTable[CHOOSE i \in Matching(slug, role) :
                       \A j \in Matching(slug, role) : i <= j].id

UserRow(uid) == UserTable[CHOOSE i \in DOMAIN UserTable : UserTable[i].id = uid]

----------------------------------------------------------------------------
(* Events and their service details (apps/events/models.py) *)

Events == {"e1", "e2", "e3"}
EventIds == Events \cup {"e9"}

\* Event.seller: CreateEvents lets any authenticated user publish an event, so
\* e3 is the storefront of the customer c1.
EventSeller(e) == CASE e = "e1" -> "s1" [] e = "e2" -> "s2" [] OTHER -> "c1"

Tokens == {"catering", "photography", "lighting", "unknown_token"}

get_service_type_display(t) ==
    CASE t = "catering" -> "Catering"
      [] t = "photography" -> "Photography"
      [] t = "lighting" -> "Lighting"
      [] OTHER -> t

InitCatalog ==
    [d \in {"d1", "d2", "d3", "d4", "d5"} |->
        CASE d = "d1" -> [event |-> "e1", service |-> "sv1", service_type |-> "catering",
                          price |-> 1, is_available |-> TRUE]
          [] d = "d2" -> [event |-> "e1", service |-> "sv3", service_type |-> "lighting",
                          price |-> 1, is_available |-> FALSE]
          [] d = "d3" -> [event |-> "e2", service |-> "sv1", service_type |-> "catering",
                          price |-> 2, is_available |-> TRUE]
          [] d = "d4" -> [event |-> "e2", service |-> "sv2", service_type |-> "photography",
                          price |-> 1, is_available |-> TRUE]
          [] OTHER    -> [event |-> "e3", service |-> "sv1", service_type |-> "catering",
                          price |-> 1, is_available |-> TRUE]]

----------------------------------------------------------------------------
(* Values *)

NoDate == 0
NoFile == "null"
Dates == 1..MaxDay
Files == {"u1"}
\* The amounts a request may carry: a negative one, zero, a part, the largest.
Amounts == {0 - 1, 0, 1, MaxAmount}


\* dict.get(key, default) on a request's validated data.
Get(data, key, default) == IF key \in DOMAIN data THEN data[key] ELSE default

EmptyData == [k \in {} |-> 0]

Field(key, opt) == IF opt = <<>> THEN EmptyData ELSE (key :> opt[1])

Optional(S) == {<<>>} \cup {<<v>> : v \in S}

\* The latest request: its response (status and message), the validated data a
\* successful update was made with, and whether it repeats a successful Accept.
NoLast == [op |-> "none", id |-> 0, status |-> 0, detail |-> "",
           data |-> EmptyData, again |-> FALSE]

Response(op, id, status, detail, data, again) ==
    [op |-> op, id |-> id, status |-> status, detail |-> detail,
     data |-> data, again |-> again]

\* The bodies of a seller-update request: every field may be left out.
SellerData ==
    {Field("discount_price", d) @@ Field("advance_paid", a)
        @@ Field("invoice_file", f) @@ Field("full_payment_date", p) :
        d \in Optional(Amounts), a \in Optional(Amounts),
        f \in Optional(Files), p \in Optional(Dates)}

\* The bodies of the seller-update requests that run concurrently: amounts only.
ConcSellerData ==
    {Field("discount_price", d) @@ Field("advance_paid", a) :
        d \in Optional(Amounts), a \in Optional(Amounts)}

\* The bodies of a buyer-update request.
BuyerData == {Field("status", s) : s \in Optional({"cancelled", "completed", "pending"})}

\* The selected_services lists of a create request.
TokenLists == UNION {[1..n -> Tokens] : n \in 0..MaxTokens}

----------------------------------------------------------------------------
(* ServiceOrder (apps/orders/models.py) *)

\* Model.save(): writes every field of the instance to its row, and inserts
\* the row when no row with that primary key is left.
Save(table, id, instance) ==
    IF id \in DOMAIN table THEN [table EXCEPT ![id] = instance]
    ELSE (id :> instance) @@ table

\* Model.delete()
DeleteRow(table, id) == [i \in DOMAIN table \ {id} |-> table[i]]

\* A new order whose is_fully_paid is computed from its total at creation.
NewOrder_paid(seller, buyer, event, service_details, total_amount) ==
    [seller |-> seller, buyer |-> buyer, event |-> event,
     selected_services |-> service_details,
     seller_agreed |-> FALSE, status |-> "pending",
     total_amount |-> total_amount, discount_price |-> 0, advance_paid |-> 0,
     is_fully_paid |-> (total_amount = 0), full_payment_date |-> NoDate,
     invoice_file |-> NoFile]

\* ServiceOrder.objects.create with the defaults of the model's fields
NewOrder(seller, buyer, event, service_details, total_amount) ==
    [seller |-> seller, buyer |-> buyer, event |-> event,
     selected_services |-> service_details,
     seller_agreed |-> FALSE, status |-> "pending",
     total_amount |-> total_amount, discount_price |-> 0, advance_paid |-> 0,
     is_fully_paid |-> FALSE, full_payment_date |-> NoDate, invoice_file |-> NoFile]

\* apply_seller_update taking the advance off the stored advance (a refund booked
\* as a payment): the advance is no longer floored at zero.
apply_seller_update_signed(self, discount_price, advance_paid, now) ==
    LET d1 == IF discount_price < 0 THEN 0 ELSE discount_price
        a1 == self.advance_paid - advance_paid
        d2 == IF d1 > self.total_amount THEN self.total_amount ELSE d1
        n0 == self.total_amount - d2
        net_total == IF n0 < 0 THEN 0 ELSE n0
        paid == (a1 >= net_total /\ net_total > 0) \/ net_total = 0
    IN  [self EXCEPT !.discount_price = d2,
                     !.advance_paid = a1,
                     !.is_fully_paid = paid,
                     !.full_payment_date =
                         IF paid /\ self.full_payment_date = NoDate
                         THEN now ELSE self.full_payment_date]

\* apply_seller_update without the branch for a net total of zero.
apply_seller_update_nozero(self, discount_price, advance_paid, now) ==
    LET d1 == IF discount_price < 0 THEN 0 ELSE discount_price
        a1 == IF advance_paid < 0 THEN 0 ELSE advance_paid
        d2 == IF d1 > self.total_amount THEN self.total_amount ELSE d1
        n0 == self.total_amount - d2
        net_total == IF n0 < 0 THEN 0 ELSE n0
        paid == a1 >= net_total /\ net_total > 0
    IN  [self EXCEPT !.discount_price = d2,
                     !.advance_paid = a1,
                     !.is_fully_paid = paid,
                     !.full_payment_date =
                         IF paid /\ self.full_payment_date = NoDate
                         THEN now ELSE self.full_payment_date]

\* apply_seller_update clearing the date when the order is no longer fully paid.
apply_seller_update_clear(self, discount_price, advance_paid, now) ==
    LET d1 == IF discount_price < 0 THEN 0 ELSE discount_price
        a1 == IF advance_paid < 0 THEN 0 ELSE advance_paid
        d2 == IF d1 > self.total_amount THEN self.total_amount ELSE d1
        n0 == self.total_amount - d2
        net_total == IF n0 < 0 THEN 0 ELSE n0
        paid == (a1 >= net_total /\ net_total > 0) \/ net_total = 0
    IN  [self EXCEPT !.discount_price = d2,
                     !.advance_paid = a1,
                     !.is_fully_paid = paid,
                     !.full_payment_date =
                         IF ~paid THEN NoDate
                         ELSE IF self.full_payment_date = NoDate
                         THEN now ELSE self.full_payment_date]

\* apply_seller_update stamping no date in the branch where the advance covers
\* a positive net total.
apply_seller_update_nostamp(self, discount_price, advance_paid, now) ==
    LET d1 == IF discount_price < 0 THEN 0 ELSE discount_price
        a1 == IF advance_paid < 0 THEN 0 ELSE advance_paid
        d2 == IF d1 > self.total_amount THEN self.total_amount ELSE d1
        n0 == self.total_amount - d2
        net_total == IF n0 < 0 THEN 0 ELSE n0
        paid == (a1 >= net_total /\ net_total > 0) \/ net_total = 0
    IN  [self EXCEPT !.discount_price = d2,
                     !.advance_paid = a1,
                     !.is_fully_paid = paid,
                     !.full_payment_date =
                         IF net_total = 0 /\ self.full_payment_date = NoDate
                         THEN now ELSE self.full_payment_date]

\* The update that never takes is_fully_paid back to false.
apply_seller_update_sticky(self, discount_price, advance_paid, now) ==
    LET d1 == IF discount_price < 0 THEN 0 ELSE discount_price
        a1 == IF advance_paid < 0 THEN 0 ELSE advance_paid
        d2 == IF d1 > self.total_amount THEN self.total_amount ELSE d1
        n0 == self.total_amount - d2
        net_total == IF n0 < 0 THEN 0 ELSE n0
        paid == (a1 >= net_total /\ net_total > 0) \/ net_total = 0
    IN  [self EXCEPT !.discount_price = d2,
                     !.advance_paid = a1,
                     !.is_fully_paid = paid \/ self.is_fully_paid,
                     !.full_payment_date =
                         IF paid /\ self.full_payment_date = NoDate
                         THEN now ELSE self.full_payment_date]

\* ServiceOrder.apply_seller_update; the serializer always passes both amounts.
apply_seller_update(self, discount_price, advance_paid, now) ==
    LET d1 == IF discount_price < 0 THEN 0 ELSE discount_price
        a1 == IF advance_paid < 0 THEN 0 ELSE advance_paid
        d2 == IF d1 > self.total_amount THEN self.total_amount ELSE d1
        n0 == self.total_amount - d2
        net_total == IF n0 < 0 THEN 0 ELSE n0
        paid == (a1 >= net_total /\ net_total > 0) \/ net_total = 0
    IN  [self EXCEPT !.discount_price = d2,
                     !.advance_paid = a1,
                     !.is_fully_paid = paid,
                     !.full_payment_date =
                         IF paid /\ self.full_payment_date = NoDate
                         THEN now ELSE self.full_payment_date]

\* remaining_amount without its floor at zero.
remaining_amount_nofloor(self) ==
    self.total_amount - self.discount_price - self.advance_paid

\* ServiceOrder.remaining_amount
remaining_amount(self) ==
    LET rem == self.total_amount - self.discount_price - self.advance_paid
    IN  IF rem > 0 THEN rem ELSE 0

\* ServiceOrderSerializer.get_net_total
get_net_total(obj) == obj.total_amount - obj.discount_price

----------------------------------------------------------------------------
(* Serializers (apps/orders/serializers.py) *)

\* The serializer without validate()'s check of the discount against the total.
SellerValidate_nodiscount(instance, data, user) ==
    IF Get(data, "discount_price", 0) < 0 \/ Get(data, "advance_paid", 0) < 0
    THEN "Ensure this value is greater than or equal to 0."
    ELSE IF UserRow(user).user_type # "seller"
    THEN "Only sellers can update these fields."
    ELSE ""

\* The error of UpdateServiceSellerOrderSerializer on a request body, "" when valid:
\* the fields' min_value first, then validate().
SellerValidate(instance, data, user) ==
    IF Get(data, "discount_price", 0) < 0 \/ Get(data, "advance_paid", 0) < 0
    THEN "Ensure this value is greater than or equal to 0."
    ELSE IF UserRow(user).user_type # "seller"
    THEN "Only sellers can update these fields."
    ELSE IF Get(data, "discount_price", instance.discount_price) > instance.total_amount
    THEN "Discount cannot exceed total order amount."
    ELSE ""

\* The update whose omitted advance_paid counts as zero.
SerializerUpdate_defaults(instance, validated_data, now) ==
    LET discount == Get(validated_data, "discount_price", instance.discount_price)
        advance == Get(validated_data, "advance_paid", 0)
        invoice_file == Get(validated_data, "invoice_file", NoFile)
        full_payment_date ==
            Get(validated_data, "full_payment_date", instance.full_payment_date)
        i1 == IF invoice_file # NoFile
              THEN [instance EXCEPT !.invoice_file = invoice_file] ELSE instance
        i2 == IF full_payment_date # NoDate
              THEN [i1 EXCEPT !.full_payment_date = full_payment_date] ELSE i1
    IN  apply_seller_update(i2, discount, advance, now)

\* The update that stores a supplied date only when none is stored.
SerializerUpdate_keepdate(instance, validated_data, now) ==
    LET discount == Get(validated_data, "discount_price", instance.discount_price)
        advance == Get(validated_data, "advance_paid", instance.advance_paid)
        invoice_file == Get(validated_data, "invoice_file", NoFile)
        full_payment_date ==
            Get(validated_data, "full_payment_date", instance.full_payment_date)
        i1 == IF invoice_file # NoFile
              THEN [instance EXCEPT !.invoice_file = invoice_file] ELSE instance
        i2 == IF full_payment_date # NoDate /\ instance.full_payment_date = NoDate
              THEN [i1 EXCEPT !.full_payment_date = full_payment_date] ELSE i1
    IN  apply_seller_update(i2, discount, advance, now)

\* UpdateServiceSellerOrderSerializer.update
SerializerUpdate(instance, validated_data, now) ==
    LET discount == Get(validated_data, "discount_price", instance.discount_price)
        advance == Get(validated_data, "advance_paid", instance.advance_paid)
        invoice_file == Get(validated_data, "invoice_file", NoFile)
        full_payment_date ==
            Get(validated_data, "full_payment_date", instance.full_payment_date)
        i1 == IF invoice_file # NoFile
              THEN [instance EXCEPT !.invoice_file = invoice_file] ELSE instance
        i2 == IF full_payment_date # NoDate
              THEN [i1 EXCEPT !.full_payment_date = full_payment_date] ELSE i1
    IN  apply_seller_update(i2, discount, advance, now)

\* The error of BuyerUpdateOrderSerializer, "" when valid.
BuyerValidate(data) ==
    IF "status" \in DOMAIN data /\ data["status"] \notin {"cancelled", "completed"}
    THEN "is not a valid choice." ELSE ""

----------------------------------------------------------------------------
(* Views (apps/orders/views.py) *)

\* get_object_or_404(ServiceOrder, id=order_id, <role>=user)
FindOrder(table, id, role, user) ==
    /\ user # NotFound
    /\ id \in DOMAIN table
    /\ table[id][role] = user

\* Accepting as a switch of seller_agreed.
AcceptFields_toggle(order) ==
    [order EXCEPT !.seller_agreed = ~order.seller_agreed, !.status = "accepted"]

\* lines 186-187 of AcceptOrderView.update
AcceptFields(order) == [order EXCEPT !.seller_agreed = TRUE, !.status = "accepted"]

\* Cancelling that also withdraws the seller's agreement.
CancelFields_reset(order) ==
    [order EXCEPT !.status = "cancelled", !.seller_agreed = FALSE]

\* lines 101-102 of UpdateServiceOrderView.update
CancelFields(order) == [order EXCEPT !.status = "cancelled"]

\* Completing that stamps the date of completion over a date already set.
CompleteFields_restamp(order, now) ==
    LET net_total == order.total_amount - order.discount_price
        paid == net_total <= 0 \/ order.advance_paid >= net_total
    IN  [order EXCEPT !.status = "completed",
                      !.is_fully_paid = IF paid THEN TRUE ELSE order.is_fully_paid,
                      !.full_payment_date =
                          IF paid THEN now ELSE order.full_payment_date]

\* Completing that marks every completed order as fully paid.
CompleteFields_force(order, now) ==
    LET net_total == order.total_amount - order.discount_price
        paid == net_total <= 0 \/ order.advance_paid >= net_total
    IN  [order EXCEPT !.status = "completed",
                      !.is_fully_paid = TRUE,
                      !.full_payment_date =
                          IF paid /\ order.full_payment_date = NoDate
                          THEN now ELSE order.full_payment_date]

\* Completing that marks a paid order without stamping its date.
CompleteFields_undated(order, now) ==
    LET net_total == order.total_amount - order.discount_price
        paid == net_total <= 0 \/ order.advance_paid >= net_total
    IN  [order EXCEPT !.status = "completed",
                      !.is_fully_paid = IF paid THEN TRUE ELSE order.is_fully_paid]

\* lines 106-112 of UpdateServiceOrderView.update
CompleteFields(order, now) ==
    LET net_total == order.total_amount - order.discount_price
        paid == net_total <= 0 \/ order.advance_paid >= net_total
    IN  [order EXCEPT !.status = "completed",
                      !.is_fully_paid = IF paid THEN TRUE ELSE order.is_fully_paid,
                      !.full_payment_date =
                          IF paid /\ order.full_payment_date = NoDate
                          THEN now ELSE order.full_payment_date]

\* The available service details of an event for one requested service type.
DetailsFor(cat, event, service_type) ==
    {d \in DOMAIN cat : /\ cat[d].event = event
                        /\ cat[d].service_type = service_type
                        /\ cat[d].is_available}

\* The loop of CreateServiceOrderView.create: the line items of the tokens that resolve.
RECURSIVE ServiceDetails(_, _, _)
ServiceDetails(cat, event, tokens) ==
    IF tokens = <<>> THEN <<>>
    ELSE LET ds == DetailsFor(cat, event, Head(tokens))
             rest == ServiceDetails(cat, event, Tail(tokens))
         IN  IF ds = {} THEN rest
             ELSE LET d == CHOOSE x \in ds : TRUE
                  IN  <<[id |-> cat[d].service,
                         name |-> get_service_type_display(cat[d].service_type),
                         price |-> cat[d].price]>> \o rest

\* EventServiceDetail.objects.get raises MultipleObjectsReturned, which create lets through.
Ambiguous(cat, event, tokens) ==
    \E i \in DOMAIN tokens : Cardinality(DetailsFor(cat, event, tokens[i])) > 1

RECURSIVE SumPrices(_)
SumPrices(items) ==
    IF items = <<>> THEN 0 ELSE Head(items).price + SumPrices(Tail(items))

Init ==
    /\ orders = [i \in {} |-> 0]
    /\ nextId = {}
    /\ catalog = InitCatalog
    /\ today = 1
    /\ inflight = {}
    /\ last = NoLast


----------------------------------------------------------------------------
(* Requests, each handled in one step.  A request's body is drawn where the  *)
(* handler first reads it.                                                  *)

Respond(op, id, status, detail) ==
    /\ last' = Response(op, id, status, detail, EmptyData, FALSE)
    /\ UNCHANGED <<orders, nextId, catalog, today, inflight>>

Commit(table, op, id, status, detail, data) ==
    /\ orders' = table
    /\ last' = Response(op, id, status, detail, data,
                        op = "accept" /\ last.op = op /\ last.id = id /\ last.status = 200)
    /\ UNCHANGED <<nextId, catalog, today, inflight>>

\* CreateServiceOrderView.create, lines 38-72: the event exists
CreateOrder(buyer, event_id, tokens) ==
    LET service_details == ServiceDetails(catalog, event_id, tokens)
        total_amount == SumPrices(service_details)
    IN  IF Ambiguous(catalog, event_id, tokens)
        THEN Respond("create", 0, 500, "MultipleObjectsReturned")
        ELSE \E new_id \in OrderIds \ nextId :
                /\ orders' = Save(orders, new_id,
                                  NewOrder(EventSeller(event_id), buyer, event_id,
                                           service_details, total_amount))
                /\ nextId' = nextId \cup {new_id}
                /\ last' = Response("create", new_id, 201, "", EmptyData, FALSE)
                /\ UNCHANGED <<catalog, today, inflight>>

\* Creating that inserts the row before it looks the event up.
Create_early(actor, buyer_slug) ==
    LET buyer == get_user_by_slug_or_404(buyer_slug, "customer")
    IN  IF buyer = NotFound
        THEN Respond("create", 0, 404, "Not found.")
        ELSE IF actor # buyer
        THEN Respond("create", 0, 403, "Only customer can create and order forms.")
        ELSE \E valid \in BOOLEAN, event_id \in EventIds :
                IF ~valid
                THEN Respond("create", 0, 400, "This field is required.")
                ELSE IF event_id \notin Events
                THEN \E new_id \in OrderIds \ nextId :
                        /\ orders' = Save(orders, new_id,
                                          NewOrder(NotFound, buyer, event_id, <<>>, 0))
                        /\ nextId' = nextId \cup {new_id}
                        /\ last' = Response("create", 0, 404, "Not found.",
                                            EmptyData, FALSE)
                        /\ UNCHANGED <<catalog, today, inflight>>
                ELSE \E tokens \in TokenLists : CreateOrder(buyer, event_id, tokens)

\* CreateServiceOrderView.create
Create(actor, buyer_slug) ==
    LET buyer == get_user_by_slug_or_404(buyer_slug, "customer")
    IN  IF buyer = NotFound
        THEN Respond("create", 0, 404, "Not found.")
        ELSE IF actor # buyer
        THEN Respond("create", 0, 403, "Only customer can create and order forms.")
        ELSE \E valid \in BOOLEAN, event_id \in EventIds :
                IF ~valid
                THEN Respond("create", 0, 400, "This field is required.")
                ELSE IF event_id \notin Events
                THEN Respond("create", 0, 404, "Not found.")
                ELSE \E tokens \in TokenLists : CreateOrder(buyer, event_id, tokens)

\* AcceptOrderView.update without the check of the requesting user.
Accept_nocheck(actor, seller_slug, id) ==
    LET seller == get_user_by_slug_or_404(seller_slug, "seller")
    IN  IF ~FindOrder(orders, id, "seller", seller)
        THEN Respond("accept", id, 404, "Not found.")
        ELSE Commit(Save(orders, id, AcceptFields(orders[id])),
                    "accept", id, 200, "", EmptyData)

\* AcceptOrderView.update
Accept(actor, seller_slug, id) ==
    LET seller == get_user_by_slug_or_404(seller_slug, "seller")
    IN  IF ~FindOrder(orders, id, "seller", seller)
        THEN Respond("accept", id, 404, "Not found.")
        ELSE IF orders[id].seller # actor
        THEN Respond("accept", id, 403, "Only the seller can accept this order")
        ELSE Commit(Save(orders, id, AcceptFields(orders[id])),
                    "accept", id, 200, "", EmptyData)

\* SellerUpdateServiceOrderView.update, lines 214-218: the order was found
SellerSave(actor, id, data) ==
    IF SellerValidate(orders[id], data, actor) # ""
    THEN Respond("seller_update", id, 400, SellerValidate(orders[id], data, actor))
    ELSE Commit(Save(orders, id, SerializerUpdate(orders[id], data, today)),
                "seller_update", id, 200, "", data)

\* SellerUpdateServiceOrderView.get_object and update, the body drawn from bodies
SellerRequest(actor, seller_slug, id, bodies) ==
    LET seller == get_user_by_slug_or_404(seller_slug, "seller")
    IN  IF ~FindOrder(orders, id, "seller", seller)
        THEN Respond("seller_update", id, 404, "Not found.")
        ELSE IF orders[id].seller # actor
        THEN Respond("seller_update", id, 403, "Only seller can update this order.")
        ELSE IF orders[id].status = "cancelled"
        THEN Respond("seller_update", id, 403, "Cannot update a cancelled order.")
        ELSE \E data \in bodies : SellerSave(actor, id, data)

SellerUpdate(actor, seller_slug, id) == SellerRequest(actor, seller_slug, id, SellerData)

\* UpdateServiceOrderView.update, lines 97-116: the order was found
BuyerSave(id, data) ==
    LET new_status == Get(data, "status", "")
    IN  IF BuyerValidate(data) # ""
        THEN Respond("buyer_update", id, 400, BuyerValidate(data))
        ELSE IF new_status = "cancelled"
        THEN Commit(Save(orders, id, CancelFields(orders[id])),
                    "buyer_update", id, 200, "cancelled", data)
        ELSE IF new_status = "completed"
        THEN Commit(Save(orders, id, CompleteFields(orders[id], today)),
                    "buyer_update", id, 200, "completed", data)
        ELSE Respond("buyer_update", id, 400, "Invalid status update.")

\* The buyer update without get_object's check of the order's status.
BuyerUpdate_nostatus(actor, buyer_slug, id) ==
    LET buyer == get_user_by_slug_or_404(buyer_slug, "customer")
    IN  IF ~FindOrder(orders, id, "buyer", buyer)
        THEN Respond("buyer_update", id, 404, "Not found.")
        ELSE IF orders[id].buyer # actor
        THEN Respond("buyer_update", id, 403, "Only buyer can update this order.")
        ELSE \E data \in BuyerData : BuyerSave(id, data)

\* UpdateServiceOrderView.get_object and update
BuyerUpdate(actor, buyer_slug, id) ==
    LET buyer == get_user_by_slug_or_404(buyer_slug, "customer")
    IN  IF ~FindOrder(orders, id, "buyer", buyer)
        THEN Respond("buyer_update", id, 404, "Not found.")
        ELSE IF orders[id].buyer # actor
        THEN Respond("buyer_update", id, 403, "Only buyer can update this order.")
        ELSE IF orders[id].status \notin {"pending", "accepted"}
        THEN Respond("buyer_update", id, 403,
                     "Order cannot be updated after completion or cancellation.")
        ELSE \E data \in BuyerData : BuyerSave(id, data)

\* Delete whose buyer branch cancels an order in any status.
Delete_anystatus(actor, buyer_slug, id) ==
    LET buyer == get_user_by_slug_or_404(buyer_slug, "customer")
    IN  IF ~FindOrder(orders, id, "buyer", buyer)
        THEN Respond("delete", id, 404, "Not found.")
        ELSE IF orders[id].buyer # actor /\ orders[id].seller # actor
        THEN Respond("delete", id, 403, "Not allowed to access this order.")
        ELSE IF orders[id].buyer = actor
        THEN Commit(Save(orders, id, CancelFields(orders[id])),
                    "delete", id, 200, "Order cancelled", EmptyData)
        ELSE IF orders[id].seller = actor
        THEN Commit(DeleteRow(orders, id), "delete", id, 204, "", EmptyData)
        ELSE Respond("delete", id, 403, "You cannot delete this order.")

\* Delete whose seller branch refuses to remove a completed order.
Delete_keepcompleted(actor, buyer_slug, id) ==
    LET buyer == get_user_by_slug_or_404(buyer_slug, "customer")
    IN  IF ~FindOrder(orders, id, "buyer", buyer)
        THEN Respond("delete", id, 404, "Not found.")
        ELSE IF orders[id].buyer # actor /\ orders[id].seller # actor
        THEN Respond("delete", id, 403, "Not allowed to access this order.")
        ELSE IF orders[id].buyer = actor /\ orders[id].status = "pending"
        THEN Commit(Save(orders, id, CancelFields(orders[id])),
                    "delete", id, 200, "Order cancelled", EmptyData)
        ELSE IF orders[id].seller = actor /\ orders[id].status # "completed"
        THEN Commit(DeleteRow(orders, id), "delete", id, 204, "", EmptyData)
        ELSE Respond("delete", id, 403, "You cannot delete this order.")

\* DeleteServiceOrderView.get_object and destroy
Delete(actor, buyer_slug, id) ==
    LET buyer == get_user_by_slug_or_404(buyer_slug, "customer")
    IN  IF ~FindOrder(orders, id, "buyer", buyer)
        THEN Respond("delete", id, 404, "Not found.")
        ELSE IF orders[id].buyer # actor /\ orders[id].seller # actor
        THEN Respond("delete", id, 403, "Not allowed to access this order.")
        ELSE IF orders[id].buyer = actor /\ orders[id].status = "pending"
        THEN Commit(Save(orders, id, CancelFields(orders[id])),
                    "delete", id, 200, "Order cancelled", EmptyData)
        ELSE IF orders[id].seller = actor
        THEN Commit(DeleteRow(orders, id), "delete", id, 204, "", EmptyData)
        ELSE Respond("delete", id, 403, "You cannot delete this order.")

\* The calendar day passes.
Tick ==
    /\ today < MaxDay
    /\ today' = today + 1
    /\ UNCHANGED <<orders, nextId, catalog, inflight, last>>

Next ==
    \/ \E actor \in Users, slug \in Slugs : Create(actor, slug)
    \/ \E actor \in Users, slug \in Slugs, id \in OrderIds : Accept(actor, slug, id)
    \/ \E actor \in Users, slug \in Slugs, id \in OrderIds : SellerUpdate(actor, slug, id)
    \/ \E actor \in Users, slug \in Slugs, id \in OrderIds : BuyerUpdate(actor, slug, id)
    \/ \E actor \in Users, slug \in Slugs, id \in OrderIds : Delete(actor, slug, id)
    \/ Tick

Spec == Init /\ [][Next]_vars

----------------------------------------------------------------------------
(* The catalog under change: the seller of an event patches its service     *)
(* details (apps/events/views.py, apps/events/serializers.py) while orders  *)
(* are placed and handled.                                                  *)

\* The EventService table in the order the database returns its rows; service_type
\* carries no unique constraint, and sv4 is a second service of type catering.
ServiceTable ==
    << [id |-> "sv1", service_type |-> "catering"],
       [id |-> "sv2", service_type |-> "photography"],
       [id |-> "sv3", service_type |-> "lighting"],
       [id |-> "sv4", service_type |-> "catering"] >>

\* The primary keys of the EventServiceDetail rows.
DetailIds == {"d1", "d2", "d3", "d4", "d5", "d6"}

\* The event slugs the patches address: a published event and none.
PatchedEvents == {"e1", "e9"}

\* EventServiceRefField.to_internal_value: the first service of that type, else
\* the service with that primary key, else NotFound (a validation error).
ServiceByRef(ref) ==
    LET byType == {i \in DOMAIN ServiceTable : ServiceTable[i].service_type = ref}
        byKey == {i \in DOMAIN ServiceTable : ServiceTable[i].id = ref}
    IN  IF byType # {}
        THEN ServiceTable[CHOOSE i \in byType : \A j \in byType : i <= j]
        ELSE IF byKey # {} THEN ServiceTable[CHOOSE i \in byKey : TRUE]
        ELSE [id |-> NotFound, service_type |-> NotFound]

\* The service_details items of a patch: a new price, a withdrawal, a rejected
\* price, a second service of a type the event already offers, an unknown service.
EventItems ==
    { ("service" :> "catering") @@ ("price" :> MaxAmount),
      ("service" :> "catering") @@ ("is_available" :> FALSE),
      ("service" :> "catering") @@ ("price" :> 0 - 1),
      ("service" :> "sv4"),
      ("service" :> "nope") }

\* The bodies of the seller-update requests made while the catalog changes.
FewSellerData ==
    {Field("discount_price", <<1>>), Field("advance_paid", <<MaxAmount>>)}

\* EventSerializer._upsert_service_details on one item of a partial update.
upsert_service_details(cat, event, service, item) ==
    LET existing == {d \in DOMAIN cat : cat[d].event = event /\ cat[d].service = service.id}
    IN  IF existing # {}
        THEN LET d == CHOOSE x \in existing : TRUE
             IN  [cat EXCEPT ![d].price = Get(item, "price", cat[d].price),
                             ![d].is_available = Get(item, "is_available", cat[d].is_available)]
        ELSE LET d == CHOOSE x \in DetailIds \ DOMAIN cat : TRUE
             IN  (d :> [event |-> event, service |-> service.id,
                        service_type |-> service.service_type,
                        price |-> Get(item, "price", 0),
                        is_available |-> Get(item, "is_available", TRUE)]) @@ cat

\* The response of UpdateEvent; orders are not touched.
Answer(status, detail) ==
    /\ last' = Response("update_event", 0, status, detail, EmptyData, FALSE)
    /\ UNCHANGED <<orders, nextId, today, inflight>>

\* A patch that also re-prices the line items of the event's orders.
PatchEvent_reprice(event, item) ==
    LET service == ServiceByRef(item["service"])
        reprice(o) ==
            IF o.event # event \/ "price" \notin DOMAIN item THEN o
            ELSE [o EXCEPT !.selected_services =
                      [i \in DOMAIN o.selected_services |->
                          IF o.selected_services[i].id = service.id
                          THEN [o.selected_services[i] EXCEPT !.price = item["price"]]
                          ELSE o.selected_services[i]]]
    IN  IF service.id = NotFound
        THEN Answer(400, "Service with type or ID does not exist.") /\ UNCHANGED catalog
        ELSE IF Get(item, "price", 0) < 0
        THEN Answer(400, "Ensure this value is greater than or equal to 0.")
             /\ UNCHANGED catalog
        ELSE /\ \/ \E d \in DOMAIN catalog :
                       catalog[d].event = event /\ catalog[d].service = service.id
                \/ DetailIds \ DOMAIN catalog # {}
             /\ catalog' = upsert_service_details(catalog, event, service, item)
             /\ last' = Response("update_event", 0, 200, "", EmptyData, FALSE)
             /\ orders' = [i \in DOMAIN orders |-> reprice(orders[i])]
             /\ UNCHANGED <<nextId, today, inflight>>

\* EventSerializer.update on a patch with one service_details item
PatchEvent(event, item) ==
    LET service == ServiceByRef(item["service"])
    IN  IF service.id = NotFound
        THEN Answer(400, "Service with type or ID does not exist.") /\ UNCHANGED catalog
        ELSE IF Get(item, "price", 0) < 0
        THEN Answer(400, "Ensure this value is greater than or equal to 0.")
             /\ UNCHANGED catalog
        ELSE /\ \/ \E d \in DOMAIN catalog :
                       catalog[d].event = event /\ catalog[d].service = service.id
                \/ DetailIds \ DOMAIN catalog # {}
             /\ catalog' = upsert_service_details(catalog, event, service, item)
             /\ Answer(200, "")

\* UpdateEvent.get_object and patch
UpdateEvent(actor, event) ==
    IF event \notin Events
    THEN Answer(404, "Not found.") /\ UNCHANGED catalog
    ELSE IF EventSeller(event) # actor
    THEN Answer(403, "You do not have permission to perform this action.")
         /\ UNCHANGED catalog
    ELSE \E item \in EventItems : PatchEvent(event, item)

NextCatalog ==
    \/ \E actor \in Users, event \in PatchedEvents : UpdateEvent(actor, event)
    \/ \E actor \in Users, slug \in Slugs : Create(actor, slug)
    \/ \E actor \in Users, slug \in Slugs, id \in OrderIds : Accept(actor, slug, id)
    \/ \E actor \in Users, slug \in Slugs, id \in OrderIds :
          SellerRequest(actor, slug, id, FewSellerData)
    \/ \E actor \in Users, slug \in Slugs, id \in OrderIds : BuyerUpdate(actor, slug, id)
    \/ \E actor \in Users, slug \in Slugs, id \in OrderIds : Delete(actor, slug, id)

SpecCatalog == Init /\ [][NextCatalog]_vars

----------------------------------------------------------------------------
(* Concurrent requests: a handler loads its order (get_object), and saves   *)
(* the instance it loaded in a later step; other requests run in between.   *)

Request(op, id, actor, instance, phase) ==
    [op |-> op, id |-> id, actor |-> actor, instance |-> instance, phase |-> phase]

Load(op, id, actor) ==
    /\ Cardinality(inflight) < Cardinality(Workers)
    /\ inflight' = inflight \cup {Request(op, id, actor, orders[id], "loaded")}
    /\ UNCHANGED <<orders, nextId, catalog, today, last>>

\* The handler's save(), after which the request is over.
SaveAndRespond(r, instance, status, detail) ==
    /\ orders' = Save(orders, r.id, instance)
    /\ inflight' = inflight \ {r}
    /\ UNCHANGED <<nextId, catalog, today, last>>

\* The request ends without writing.
Drop(r, status, detail) ==
    /\ inflight' = inflight \ {r}
    /\ UNCHANGED <<orders, nextId, catalog, today, last>>

\* AcceptOrderView.update, lines 178-184
BeginAccept(actor, seller_slug, id) ==
    /\ FindOrder(orders, id, "seller", get_user_by_slug_or_404(seller_slug, "seller"))
    /\ orders[id].seller = actor
    /\ Load("accept", id, actor)

\* AcceptOrderView.update, lines 186-190
FinishAccept(r) ==
    /\ r.op = "accept"
    /\ SaveAndRespond(r, AcceptFields(r.instance), 200, "")

\* SellerUpdateServiceOrderView.get_object
BeginSellerUpdate(actor, seller_slug, id) ==
    /\ FindOrder(orders, id, "seller", get_user_by_slug_or_404(seller_slug, "seller"))
    /\ orders[id].seller = actor
    /\ orders[id].status # "cancelled"
    /\ Load("seller_update", id, actor)

\* SellerUpdateServiceOrderView.update up to the save() of apply_seller_update
FinishSellerUpdate(r) ==
    /\ r.op = "seller_update"
    /\ r.phase = "loaded"
    /\ \E data \in ConcSellerData :
          IF SellerValidate(r.instance, data, r.actor) # ""
          THEN Drop(r, 400, SellerValidate(r.instance, data, r.actor))
          ELSE LET instance == SerializerUpdate(r.instance, data, today)
               IN  /\ orders' = Save(orders, r.id, instance)
                   /\ inflight' = (inflight \ {r}) \cup
                                    {Request(r.op, r.id, r.actor, instance, "saved")}
                   /\ UNCHANGED <<nextId, catalog, today, last>>

\* UpdateServiceSellerOrderSerializer.update, line 114: the second save()
SecondSave(r) ==
    /\ r.op = "seller_update"
    /\ r.phase = "saved"
    /\ SaveAndRespond(r, r.instance, 200, "")

\* UpdateServiceOrderView.get_object
BeginBuyerUpdate(actor, buyer_slug, id) ==
    /\ FindOrder(orders, id, "buyer", get_user_by_slug_or_404(buyer_slug, "customer"))
    /\ orders[id].buyer = actor
    /\ orders[id].status \in {"pending", "accepted"}
    /\ Load("buyer_update", id, actor)

\* UpdateServiceOrderView.update, lines 97-116
FinishBuyerUpdate(r) ==
    /\ r.op = "buyer_update"
    /\ \E data \in BuyerData :
          LET new_status == Get(data, "status", "")
          IN  IF BuyerValidate(data) # ""
              THEN Drop(r, 400, BuyerValidate(data))
              ELSE IF new_status = "cancelled"
              THEN SaveAndRespond(r, CancelFields(r.instance), 200, "cancelled")
              ELSE IF new_status = "completed"
              THEN SaveAndRespond(r, CompleteFields(r.instance, today), 200, "completed")
              ELSE Drop(r, 400, "Invalid status update.")

\* DeleteServiceOrderView.get_object and the branch destroy takes
BeginDelete(actor, buyer_slug, id) ==
    /\ FindOrder(orders, id, "buyer", get_user_by_slug_or_404(buyer_slug, "customer"))
    /\ \/ /\ orders[id].buyer = actor
          /\ orders[id].status = "pending"
          /\ Load("cancel", id, actor)
       \/ /\ ~(orders[id].buyer = actor /\ orders[id].status = "pending")
          /\ orders[id].seller = actor
          /\ Load("destroy", id, actor)

\* DeleteServiceOrderView.destroy, lines 138-140
FinishCancel(r) ==
    /\ r.op = "cancel"
    /\ SaveAndRespond(r, CancelFields(r.instance), 200, "Order cancelled")

\* DestroyModelMixin.destroy: get_object again, then instance.delete()
FinishDestroy(r) ==
    /\ r.op = "destroy"
    /\ IF ~FindOrder(orders, r.id, "buyer", r.instance.buyer)
       THEN Drop(r, 404, "Not found.")
       ELSE /\ orders' = DeleteRow(orders, r.id)
            /\ inflight' = inflight \ {r}
            /\ UNCHANGED <<nextId, catalog, today, last>>

\* CreateServiceOrderView.create of a valid request: one INSERT
CreateValid(tokens) ==
    /\ ~Ambiguous(catalog, "e1", tokens)
    /\ CreateOrder(get_user_by_slug_or_404(<<"ann", "lee">>, "customer"), "e1", tokens)

NextConc ==
    \/ \E tokens \in TokenLists : CreateValid(tokens)
    \/ \E actor \in Users, slug \in Slugs, id \in OrderIds : BeginAccept(actor, slug, id)
    \/ \E actor \in Users, slug \in Slugs, id \in OrderIds : BeginSellerUpdate(actor, slug, id)
    \/ \E actor \in Users, slug \in Slugs, id \in OrderIds : BeginBuyerUpdate(actor, slug, id)
    \/ \E actor \in Users, slug \in Slugs, id \in OrderIds : BeginDelete(actor, slug, id)
    \/ \E r \in inflight : FinishAccept(r)
    \/ \E r \in inflight : FinishSellerUpdate(r)
    \/ \E r \in inflight : SecondSave(r)
    \/ \E r \in inflight : FinishBuyerUpdate(r)
    \/ \E r \in inflight : FinishCancel(r)
    \/ \E r \in inflight : FinishDestroy(r)

SpecConc == Init /\ [][NextConc]_vars

----------------------------------------------------------------------------
(* Properties *)

Terminal == {"completed", "cancelled"}

Max0(n) == IF n < 0 THEN 0 ELSE n

\* The stored payment fields of an order.
Financials(o) ==
    <<o.discount_price, o.advance_paid, o.is_fully_paid, o.full_payment_date,
      o.invoice_file>>

SellerUpdated(id) == last.op = "seller_update" /\ last.status = 200 /\ last.id = id

\* C1: once an order is completed or cancelled, no request changes its status
\* again; in particular Accept does not move it to accepted.
C1_TerminalStatusKept ==
    [][\A id \in DOMAIN orders :
          orders[id].status \in Terminal /\ id \in DOMAIN orders'
              => orders'[id].status = orders[id].status]_vars

\* C2: in every committed state of every order, under any interleaving of
\* concurrent requests, 0 <= discount_price <= total_amount and advance_paid >= 0.
C2_AmountsInRange ==
    \A id \in DOMAIN orders :
        /\ 0 <= orders[id].discount_price
        /\ orders[id].discount_price <= orders[id].total_amount
        /\ orders[id].advance_paid >= 0

\* A discounted, part-paid order that a request in flight loaded in an older state.
C2_Witness ==
    \E r \in inflight :
        /\ r.id \in DOMAIN orders
        /\ r.instance # orders[r.id]
        /\ orders[r.id].discount_price > 0
        /\ orders[r.id].advance_paid > 0
        /\ r.instance.discount_price # orders[r.id].discount_price

\* C3: the derived values shown on read, net_total and remaining_amount, are
\* never negative, whatever the order of the discount and advance updates.
C3_DerivedNonNegative ==
    \A id \in DOMAIN orders :
        /\ get_net_total(orders[id]) >= 0
        /\ remaining_amount(orders[id]) >= 0

\* An order whose advance exceeds what is left after the discount.
C3_Witness ==
    \E id \in DOMAIN orders :
        /\ orders[id].discount_price > 0
        /\ orders[id].advance_paid > orders[id].total_amount - orders[id].discount_price

\* C4: after a successful seller update is_fully_paid is true exactly when
\* net_total = 0 or advance_paid >= net_total, net_total being
\* max(0, total_amount - discount_price) of the stored values.
C4_FullyPaidRule ==
    \A id \in DOMAIN orders :
        SellerUpdated(id) =>
            LET net_total == Max0(orders[id].total_amount - orders[id].discount_price)
            IN  orders[id].is_fully_paid
                    = (net_total = 0 \/ orders[id].advance_paid >= net_total)

\* A seller update left the discount equal to a positive total with no advance.
C4_Witness ==
    \E id \in DOMAIN orders :
        /\ SellerUpdated(id)
        /\ orders[id].total_amount > 0
        /\ orders[id].discount_price = orders[id].total_amount
        /\ orders[id].advance_paid = 0
        /\ orders[id].is_fully_paid

\* C5: a seller update that supplies no full_payment_date, and a buyer update,
\* leave a full_payment_date that is set exactly as it is.
C5_FullPaymentDateKept ==
    [][\A id \in DOMAIN orders :
          /\ orders[id].full_payment_date # NoDate
          /\ last'.id = id
          /\ \/ last'.op = "buyer_update"
             \/ last'.op = "seller_update" /\ "full_payment_date" \notin DOMAIN last'.data
          => /\ id \in DOMAIN orders'
             /\ orders'[id].full_payment_date = orders[id].full_payment_date]_vars

\* A seller update without a date lowered the advance of an order stamped on an
\* earlier day: the order is no longer fully paid and keeps its date.
C5_Witness ==
    \E id \in DOMAIN orders :
        /\ SellerUpdated(id)
        /\ "full_payment_date" \notin DOMAIN last.data
        /\ "advance_paid" \in DOMAIN last.data
        /\ ~orders[id].is_fully_paid
        /\ orders[id].full_payment_date # NoDate
        /\ orders[id].full_payment_date < today

\* C6: a successful seller update without a full_payment_date that leaves the
\* order fully paid, the date being unset before, sets the date to the current date.
C6_StampedWhenFullyPaid ==
    [][\A id \in DOMAIN orders :
          /\ orders[id].full_payment_date = NoDate
          /\ last'.op = "seller_update" /\ last'.status = 200 /\ last'.id = id
          /\ "full_payment_date" \notin DOMAIN last'.data
          /\ today' = today
          /\ id \in DOMAIN orders'
          /\ orders'[id].is_fully_paid
          => orders'[id].full_payment_date = today]_vars

\* A seller update without a date paid the whole undiscounted total on the second day.
C6_Witness ==
    \E id \in DOMAIN orders :
        /\ SellerUpdated(id)
        /\ "full_payment_date" \notin DOMAIN last.data
        /\ "advance_paid" \in DOMAIN last.data
        /\ orders[id].total_amount > 0
        /\ orders[id].discount_price = 0
        /\ orders[id].advance_paid = orders[id].total_amount
        /\ orders[id].is_fully_paid
        /\ today = MaxDay
        /\ orders[id].full_payment_date = today

\* C7: the same Accept repeated by the owning seller right after it succeeded
\* succeeds again and leaves every field of the order as the first left it.
C7_AcceptIdempotent ==
    [][\A id \in DOMAIN orders, actor \in Users, slug \in Slugs :
          /\ last.op = "accept" /\ last.status = 200 /\ last.id = id
          /\ actor = orders[id].seller
          /\ get_user_by_slug_or_404(slug, "seller") = actor
          /\ Accept(actor, slug, id)
          => /\ last'.status = 200
             /\ orders' = orders]_vars

\* An Accept succeeded right after an Accept of the same order had.
C7_Witness ==
    /\ last.again
    /\ last.id \in DOMAIN orders
    /\ orders[last.id].status = "accepted"
    /\ orders[last.id].seller_agreed

\* C8, as stated: Accept by a user who is not the order's seller fails with
\* ForbiddenError (403) and changes nothing.
C8_NonSellerForbidden ==
    [][\A id \in DOMAIN orders, actor \in Users, slug \in Slugs :
          /\ last'.op = "accept"
          /\ actor # orders[id].seller
          /\ Accept(actor, slug, id)
          => /\ last'.status = 403
             /\ orders' = orders]_vars

\* C8, amended: Accept by a user who is not the order's seller changes nothing and
\* fails, with 403 when the seller slug of the request resolves to the order's
\* seller and with 404 when it does not.
C8_NonSellerRejected ==
    [][\A id \in DOMAIN orders, actor \in Users, slug \in Slugs :
          /\ last'.op = "accept"
          /\ actor # orders[id].seller
          /\ Accept(actor, slug, id)
          => /\ orders' = orders
             /\ last'.status =
                    IF get_user_by_slug_or_404(slug, "seller") = orders[id].seller
                    THEN 403 ELSE 404]_vars

\* Accept of an existing order was refused with 403.
C8_Witness ==
    /\ last.op = "accept"
    /\ last.status = 403
    /\ last.id \in DOMAIN orders

\* C9: a seller update is rejected and leaves the payment fields alone when the
\* actor is not the owning seller or the order is cancelled, and is admitted for
\* the owning seller, addressed by their own slug, when the order is pending,
\* accepted or completed.
C9_SellerUpdateGuard ==
    [][\A id \in DOMAIN orders, actor \in Users :
          /\ last'.op = "seller_update"
          => /\ \A slug \in Slugs :
                   /\ actor # orders[id].seller \/ orders[id].status = "cancelled"
                   /\ SellerUpdate(actor, slug, id)
                   => /\ last'.status \in {403, 404}
                      /\ id \in DOMAIN orders'
                      /\ Financials(orders'[id]) = Financials(orders[id])
             /\ /\ actor = orders[id].seller
                /\ orders[id].status \in {"pending", "accepted", "completed"}
                /\ SellerUpdate(actor, get_profile_slug(UserRow(actor)), id)
                => last'.status \in {200, 400}]_vars

\* The bodies whose discount exceeds the total of the order.
OverDiscount(id) ==
    {data \in SellerData :
        /\ "discount_price" \in DOMAIN data
        /\ data["discount_price"] > orders[id].total_amount}

\* C10: the serializer rejects every body whose discount exceeds the total, no
\* seller update succeeds with such a body, and a seller update that fails with
\* a validation error changes nothing on the order.
C10_OverDiscountRejected ==
    /\ [](\A id \in DOMAIN orders : \A data \in OverDiscount(id) :
             SellerValidate(orders[id], data, orders[id].seller) # "")
    /\ [][\A id \in DOMAIN orders :
             last'.op = "seller_update" /\ last'.id = id
             => /\ last'.status = 200 =>
                      Get(last'.data, "discount_price", 0) <= orders[id].total_amount
                /\ last'.status = 400 => orders' = orders]_vars

\* A seller update was refused because its discount exceeded the total.
C10_Witness ==
    /\ last.op = "seller_update"
    /\ last.status = 400
    /\ last.detail = "Discount cannot exceed total order amount."
    /\ last.id \in DOMAIN orders

\* resp is the response of a successful buyer update of order id to status to.
BuyerMoved(resp, id, to) ==
    resp.op = "buyer_update" /\ resp.status = 200 /\ resp.id = id /\ resp.detail = to

\* C11, as stated: a buyer update by anyone but the owning buyer, or of an order
\* that is completed or cancelled, fails with ForbiddenError (403) and leaves
\* every order unchanged.
C11_BuyerTransitionForbidden ==
    [][\A id \in DOMAIN orders, actor \in Users, slug \in Slugs :
          /\ last'.op = "buyer_update"
          /\ actor # orders[id].buyer \/ orders[id].status \notin {"pending", "accepted"}
          /\ BuyerUpdate(actor, slug, id)
          => /\ last'.status = 403
             /\ orders' = orders]_vars

\* C11, amended: such a buyer update leaves every order unchanged and fails, with
\* 403 when the buyer slug of the request resolves to the order's buyer and with
\* 404 when it does not.
C11_BuyerTransitionGuarded ==
    [][\A id \in DOMAIN orders, actor \in Users, slug \in Slugs :
          /\ last'.op = "buyer_update"
          /\ actor # orders[id].buyer \/ orders[id].status \notin {"pending", "accepted"}
          /\ BuyerUpdate(actor, slug, id)
          => /\ orders' = orders
             /\ last'.status =
                    IF get_user_by_slug_or_404(slug, "customer") = orders[id].buyer
                    THEN 403 ELSE 404]_vars

\* The owning buyer's update of a completed or cancelled order was refused.
C11_Witness ==
    /\ last.op = "buyer_update"
    /\ last.status = 403
    /\ last.detail = "Order cannot be updated after completion or cancellation."
    /\ last.id \in DOMAIN orders
    /\ orders[last.id].status \in Terminal

\* C12: a buyer update to cancelled sets status to cancelled and leaves
\* discount_price, advance_paid, is_fully_paid, full_payment_date, seller_agreed,
\* total_amount and selected_services as they were.
C12_CancelFrame ==
    [][\A id \in DOMAIN orders :
          orders' # orders /\ BuyerMoved(last', id, "cancelled")
          => /\ orders[id].status \in {"pending", "accepted"}
             /\ id \in DOMAIN orders'
             /\ orders'[id].status = "cancelled"
             /\ orders'[id].discount_price = orders[id].discount_price
             /\ orders'[id].advance_paid = orders[id].advance_paid
             /\ orders'[id].is_fully_paid = orders[id].is_fully_paid
             /\ orders'[id].full_payment_date = orders[id].full_payment_date
             /\ orders'[id].seller_agreed = orders[id].seller_agreed
             /\ orders'[id].total_amount = orders[id].total_amount
             /\ orders'[id].selected_services = orders[id].selected_services]_vars

\* The buyer cancelled an accepted, discounted, part-paid order.
C12_Witness ==
    \E id \in DOMAIN orders :
        /\ BuyerMoved(last, id, "cancelled")
        /\ orders[id].status = "cancelled"
        /\ orders[id].seller_agreed
        /\ orders[id].discount_price > 0
        /\ orders[id].advance_paid > 0

\* C13: a buyer update to completed sets status to completed and, when
\* total_amount - discount_price <= 0 or advance_paid >= total_amount -
\* discount_price, sets is_fully_paid and stamps full_payment_date with the current
\* date if it was unset; a date already set is kept.
C13_CompleteRule ==
    [][\A id \in DOMAIN orders :
          orders' # orders /\ BuyerMoved(last', id, "completed")
          => /\ orders[id].status \in {"pending", "accepted"}
             /\ id \in DOMAIN orders'
             /\ orders'[id].status = "completed"
             /\ LET due == orders[id].total_amount - orders[id].discount_price
                IN  due <= 0 \/ orders[id].advance_paid >= due
                    => /\ orders'[id].is_fully_paid
                       /\ orders'[id].full_payment_date =
                              IF orders[id].full_payment_date = NoDate
                              THEN today ELSE orders[id].full_payment_date]_vars

\* The buyer completed a paid order whose date had been stamped on an earlier day.
C13_Witness ==
    \E id \in DOMAIN orders :
        /\ BuyerMoved(last, id, "completed")
        /\ orders[id].status = "completed"
        /\ orders[id].total_amount > 0
        /\ orders[id].advance_paid >= orders[id].total_amount - orders[id].discount_price
        /\ orders[id].is_fully_paid
        /\ orders[id].full_payment_date # NoDate
        /\ orders[id].full_payment_date < today

\* The order was pending with an advance below its net total.
Underpaid(o) ==
    /\ o.status = "pending"
    /\ o.advance_paid < Max0(o.total_amount - o.discount_price)

\* C14, as stated: completing a pending order whose advance is below its net total
\* gives status completed, is_fully_paid false and no full_payment_date.
C14_UnderpaidCompletedUndated ==
    [][\A id \in DOMAIN orders :
          orders' # orders /\ BuyerMoved(last', id, "completed") /\ Underpaid(orders[id])
          => /\ orders'[id].status = "completed"
             /\ ~orders'[id].is_fully_paid
             /\ orders'[id].full_payment_date = NoDate]_vars

\* C14, amended: completing such an order gives status completed and is_fully_paid
\* false, and leaves full_payment_date as it was.
C14_UnderpaidCompleted ==
    [][\A id \in DOMAIN orders :
          orders' # orders /\ BuyerMoved(last', id, "completed") /\ Underpaid(orders[id])
          => /\ orders'[id].status = "completed"
             /\ ~orders'[id].is_fully_paid
             /\ orders'[id].full_payment_date = orders[id].full_payment_date]_vars

\* The buyer completed a never-accepted order that is part paid and carries the
\* date of an earlier full payment.
C14_Witness ==
    \E id \in DOMAIN orders :
        /\ BuyerMoved(last, id, "completed")
        /\ orders[id].status = "completed"
        /\ ~orders[id].seller_agreed
        /\ orders[id].advance_paid > 0
        /\ orders[id].advance_paid < Max0(orders[id].total_amount - orders[id].discount_price)
        /\ ~orders[id].is_fully_paid
        /\ orders[id].full_payment_date # NoDate

\* The slug of a user's own profile.
OwnSlug(uid) == get_profile_slug(UserRow(uid))

\* C15, as stated: Delete by the owning buyer, addressed by their own slug, never
\* removes the order: a pending order becomes cancelled with a success answer and
\* no other field changed, an order in any other status is left unchanged with
\* ForbiddenError (403); a user who is neither buyer nor seller is refused.
C15_BuyerDeleteKeepsRecord ==
    [][\A id \in DOMAIN orders, actor \in Users :
          last'.op = "delete"
          => /\ actor = orders[id].buyer /\ Delete(actor, OwnSlug(actor), id)
                => IF orders[id].status = "pending"
                   THEN /\ last'.status = 200
                        /\ orders' = [orders EXCEPT ![id].status = "cancelled"]
                   ELSE /\ last'.status = 403
                        /\ orders' = orders
             /\ \A slug \in Slugs :
                   /\ actor # orders[id].buyer /\ actor # orders[id].seller
                   /\ Delete(actor, slug, id)
                   => /\ last'.status \in {403, 404}
                      /\ orders' = orders]_vars

\* C15, amended: the same for an owning buyer who is not also the order's seller.
C15_BuyerDeleteGuarded ==
    [][\A id \in DOMAIN orders, actor \in Users :
          last'.op = "delete"
          => /\ /\ actor = orders[id].buyer /\ actor # orders[id].seller
                /\ Delete(actor, OwnSlug(actor), id)
                => IF orders[id].status = "pending"
                   THEN /\ last'.status = 200
                        /\ orders' = [orders EXCEPT ![id].status = "cancelled"]
                   ELSE /\ last'.status = 403
                        /\ orders' = orders
             /\ \A slug \in Slugs :
                   /\ actor # orders[id].buyer /\ actor # orders[id].seller
                   /\ Delete(actor, slug, id)
                   => /\ last'.status \in {403, 404}
                      /\ orders' = orders]_vars

\* The buyer's Delete of an accepted order of another seller's event was refused.
C15_Witness ==
    /\ last.op = "delete"
    /\ last.status = 403
    /\ last.detail = "You cannot delete this order."
    /\ last.id \in DOMAIN orders
    /\ orders[last.id].status = "accepted"
    /\ orders[last.id].buyer # orders[last.id].seller

\* C16, as stated: Delete by the owning seller, on the order's URL, removes the
\* order in every status.
C16_SellerDeleteRemoves ==
    [][\A id \in DOMAIN orders, actor \in Users :
          /\ last'.op = "delete"
          /\ actor = orders[id].seller
          /\ Delete(actor, OwnSlug(orders[id].buyer), id)
          => /\ last'.status = 204
             /\ id \notin DOMAIN orders']_vars

\* C16, amended: it removes the order in every status, unless the seller is also
\* the order's buyer and the order is pending; that order is cancelled and kept.
C16_SellerDeleteRemovesUnlessOwnPending ==
    [][\A id \in DOMAIN orders, actor \in Users :
          /\ last'.op = "delete"
          /\ actor = orders[id].seller
          /\ Delete(actor, OwnSlug(orders[id].buyer), id)
          => IF actor = orders[id].buyer /\ orders[id].status = "pending"
             THEN /\ last'.status = 200
                  /\ orders' = [orders EXCEPT ![id].status = "cancelled"]
             ELSE /\ last'.status = 204
                  /\ id \notin DOMAIN orders']_vars

\* A Delete removed the order.
C16_Witness ==
    /\ last.op = "delete"
    /\ last.status = 204
    /\ last.id \in nextId
    /\ last.id \notin DOMAIN orders

\* C18: every order produced by Create starts pending, not agreed, with no
\* discount, no advance, not fully paid and undated, its seller the seller of the
\* event and its buyer the acting buyer.
C18_FreshOrder ==
    [][\A actor \in Users, slug \in Slugs :
          /\ last'.op = "create" /\ last'.status = 201
          /\ Create(actor, slug)
          => /\ last'.id \notin DOMAIN orders
             /\ last'.id \in DOMAIN orders'
             /\ LET o == orders'[last'.id]
                IN  /\ o.status = "pending"
                    /\ o.seller_agreed = FALSE
                    /\ o.discount_price = 0
                    /\ o.advance_paid = 0
                    /\ o.is_fully_paid = FALSE
                    /\ o.full_payment_date = NoDate
                    /\ o.event \in Events
                    /\ o.seller = EventSeller(o.event)
                    /\ o.buyer = actor]_vars

\* An order with no line item has just been created on the event of seller s2.
C18_Witness ==
    /\ last.op = "create"
    /\ last.status = 201
    /\ last.id \in DOMAIN orders
    /\ orders[last.id].event = "e2"
    /\ orders[last.id].seller = "s2"
    /\ orders[last.id].total_amount = 0
    /\ orders[last.id].status = "pending"
    /\ ~orders[last.id].is_fully_paid

\* The requested tokens that resolve to an available service detail of the event.
Resolving(cat, event, tokens) ==
    SelectSeq(tokens, LAMBDA t : \E d \in DOMAIN cat :
                  cat[d].event = event /\ cat[d].service_type = t /\ cat[d].is_available)

\* items are line items of the tokens, one each and in their order, taken from
\* available service details of the event.
LineItemsOf(items, cat, event, tokens) ==
    /\ Len(items) = Len(tokens)
    /\ \A i \in DOMAIN items :
          \E d \in DOMAIN cat :
              /\ cat[d].event = event
              /\ cat[d].service_type = tokens[i]
              /\ cat[d].is_available
              /\ items[i] = [id |-> cat[d].service,
                             name |-> get_service_type_display(tokens[i]),
                             price |-> cat[d].price]

\* C17: Create on an existing event, by the buyer the slug resolves to, succeeds
\* and stores exactly the line items of the requested tokens that resolve to an
\* available service detail of the event, in request order, and their prices' sum
\* as total_amount.
C17_CreateStoresResolved ==
    [][last'.op = "create" /\ last'.status \notin {400, 403, 404} /\ last' # last =>
       \A actor \in Users, event \in Events, tokens \in TokenLists :
          /\ \E slug \in Slugs : get_user_by_slug_or_404(slug, "customer") = actor
          /\ CreateOrder(actor, event, tokens)
          => /\ last'.status = 201
             /\ last'.id \in DOMAIN orders'
             /\ LineItemsOf(orders'[last'.id].selected_services, catalog, event,
                            Resolving(catalog, event, tokens))
             /\ orders'[last'.id].total_amount
                    = SumPrices(orders'[last'.id].selected_services)]_vars

\* C17 on the catalogs in which no event offers two available services of one type.
C17_CreateStoresResolvedUnlessAmbiguous ==
    [][last'.op = "create" /\ last'.status \notin {400, 403, 404} /\ last' # last =>
       \A actor \in Users, event \in Events, tokens \in TokenLists :
          /\ \E slug \in Slugs : get_user_by_slug_or_404(slug, "customer") = actor
          /\ CreateOrder(actor, event, tokens)
          /\ ~Ambiguous(catalog, event, tokens)
          => /\ last'.status = 201
             /\ last'.id \in DOMAIN orders'
             /\ LineItemsOf(orders'[last'.id].selected_services, catalog, event,
                            Resolving(catalog, event, tokens))
             /\ orders'[last'.id].total_amount
                    = SumPrices(orders'[last'.id].selected_services)]_vars

\* C19: Create is all-or-nothing. A request whose buyer slug resolves to nobody or
\* to a user other than the requester is refused; a Create that does not answer
\* 201 writes no order and uses no order id; and an order is only ever stored for
\* an event that exists.
C19_CreateAllOrNothing ==
    [][last'.op = "create" /\ last' # last =>
         /\ \A actor \in Users, slug \in Slugs :
               /\ get_user_by_slug_or_404(slug, "customer") # actor
               /\ Create(actor, slug)
               => last'.status \in {403, 404}
         /\ last'.status # 201 => orders' = orders /\ nextId' = nextId
         /\ last'.status = 201 =>
               /\ DOMAIN orders' = DOMAIN orders \cup {last'.id}
               /\ orders'[last'.id].event \in Events
               /\ \A id \in DOMAIN orders : orders'[id] = orders[id]]_vars

\* A Create was refused or failed while the catalog had been patched, and no
\* order exists.
C19_Witness ==
    /\ last.op = "create"
    /\ last.status \in {404, 500}
    /\ orders = EmptyData
    /\ nextId = {}
    /\ catalog # InitCatalog

\* What Create fixes of an order.
Identity(o) == <<o.seller, o.buyer, o.event, o.total_amount, o.selected_services>>

\* C20: no request on orders and no patch of the catalog changes the seller, buyer,
\* event, total_amount or selected_services of an order that exists before and
\* after it (the order id is the key of the table).
C20_IdentityKept ==
    [][\A id \in DOMAIN orders :
          id \in DOMAIN orders' => Identity(orders'[id]) = Identity(orders[id])]_vars

\* An order carries a line item whose price is no longer the catalog's price of
\* that service, after its seller accepted and discounted it.
C20_Witness ==
    \E id \in DOMAIN orders : \E i \in DOMAIN orders[id].selected_services :
        \E d \in DOMAIN catalog :
            /\ catalog[d].event = orders[id].event
            /\ catalog[d].service = orders[id].selected_services[i].id
            /\ catalog[d].price # orders[id].selected_services[i].price
            /\ orders[id].seller_agreed
            /\ orders[id].discount_price > 0

\* C21: in every state a pending order is not agreed and an accepted order is
\* agreed; seller_agreed becomes true only in the step of a successful Accept, which
\* only the owning seller is granted, and once true it never is false again.
C21_SellerAgreedCoupled ==
    /\ [](\A id \in DOMAIN orders :
             /\ orders[id].status = "pending" => ~orders[id].seller_agreed
             /\ orders[id].status = "accepted" => orders[id].seller_agreed)
    /\ [][\A id \in DOMAIN orders :
             id \in DOMAIN orders'
             => /\ orders[id].seller_agreed => orders'[id].seller_agreed
                /\ ~orders[id].seller_agreed /\ orders'[id].seller_agreed
                   => \/ last'.op = "accept" /\ last'.status = 200 /\ last'.id = id
                      \/ \E r \in inflight :
                            /\ r.op = "accept" /\ r.id = id
                            /\ r.actor = orders[id].seller
                            /\ FinishAccept(r)]_vars

\* C22: two seller updates of one order that run at the same time take effect one
\* after the other: when the second of them writes, the payment fields it stores
\* are those of its body applied to the row the first one committed.
C22_SellerUpdatesSerial ==
    [][\A r \in inflight, other \in inflight, data \in ConcSellerData :
          /\ r.op = "seller_update" /\ r.phase = "loaded"
          /\ other.op = "seller_update" /\ other.phase = "saved" /\ other.id = r.id
          /\ r.id \in DOMAIN orders /\ orders[r.id] = other.instance
          /\ SellerValidate(r.instance, data, r.actor) = ""
          /\ SellerValidate(orders[r.id], data, r.actor) = ""
          /\ orders' = Save(orders, r.id, SerializerUpdate(r.instance, data, today))
          /\ inflight' = (inflight \ {r}) \cup
                {Request(r.op, r.id, r.actor,
                         SerializerUpdate(r.instance, data, today), "saved")}
          => Financials(orders'[r.id])
                = Financials(SerializerUpdate(orders[r.id], data, today))]_vars

\* C23: a successful seller update leaves discount_price, advance_paid and
\* invoice_file as stored when its body omits them, and leaves a stored
\* full_payment_date as it is when the body omits the date.
C23_OmittedKept ==
    [][\A id \in DOMAIN orders :
          last'.op = "seller_update" /\ last'.status = 200 /\ last'.id = id
          => /\ id \in DOMAIN orders'
             /\ \A f \in {"discount_price", "advance_paid", "invoice_file"} :
                   f \notin DOMAIN last'.data => orders'[id][f] = orders[id][f]
             /\ "full_payment_date" \notin DOMAIN last'.data
                /\ orders[id].full_payment_date # NoDate
                => orders'[id].full_payment_date = orders[id].full_payment_date]_vars

\* A seller update whose body carried only a date, on a discounted, part-paid order
\* with an invoice.
C23_Witness ==
    /\ last.op = "seller_update" /\ last.status = 200
    /\ DOMAIN last.data = {"full_payment_date"}
    /\ last.id \in DOMAIN orders
    /\ orders[last.id].discount_price > 0
    /\ orders[last.id].advance_paid > 0
    /\ orders[last.id].invoice_file # NoFile

\* C24: a successful seller update whose body carries a full_payment_date stores
\* that date, whether or not a date was stored before and whether or not the order
\* is fully paid afterwards.
C24_SuppliedDateStored ==
    [][\A id \in DOMAIN orders :
          /\ last'.op = "seller_update" /\ last'.status = 200 /\ last'.id = id
          /\ "full_payment_date" \in DOMAIN last'.data
          /\ last'.data["full_payment_date"] # NoDate
          => /\ id \in DOMAIN orders'
             /\ orders'[id].full_payment_date = last'.data["full_payment_date"]]_vars

\* The seller supplied a date later than the current day for an order that is not
\* fully paid.
C24_Witness ==
    /\ last.op = "seller_update" /\ last.status = 200
    /\ "full_payment_date" \in DOMAIN last.data
    /\ last.id \in DOMAIN orders
    /\ orders[last.id].full_payment_date = last.data["full_payment_date"]
    /\ orders[last.id].full_payment_date > today
    /\ ~orders[last.id].is_fully_paid

\* C25: when an Accept or a seller update that loaded the order as pending or
\* accepted writes after the buyer's cancelled or completed status was committed,
\* the committed status stays cancelled or completed.
C25_BuyerStatusKept ==
    [][\A r \in inflight :
          /\ r.op \in {"accept", "seller_update"}
          /\ r.instance.status \in {"pending", "accepted"}
          /\ r.id \in DOMAIN orders /\ orders[r.id].status \in Terminal
          /\ r \notin inflight'
          /\ r.id \in DOMAIN orders'
          => orders'[r.id].status \in Terminal]_vars

\* C26: when an Accept, a seller update or a buyer update that loaded the order
\* without a full_payment_date writes after a date was committed, the committed
\* date stays as it is.
C26_CommittedDateKept ==
    [][\A r \in inflight :
          /\ r.op \in {"accept", "seller_update", "buyer_update"}
          /\ r.instance.full_payment_date = NoDate
          /\ r.id \in DOMAIN orders /\ orders[r.id].full_payment_date # NoDate
          /\ r \notin inflight'
          /\ r.id \in DOMAIN orders'
          => orders'[r.id].full_payment_date = orders[r.id].full_payment_date]_vars

\* C27: an order that was created and whose record has been removed does not
\* exist again after any later step.
C27_DeletedStaysDeleted ==
    [][\A id \in OrderIds :
          id \in nextId /\ id \notin DOMAIN orders => id \notin DOMAIN orders']_vars

\* The fully-paid rule on the stored amounts of an order.
FullyPaidRule(o) ==
    LET net_total == Max0(o.total_amount - o.discount_price)
    IN  o.is_fully_paid = (net_total = 0 \/ o.advance_paid >= net_total)

\* C28, as stated: in every state every order, a freshly created one with
\* total_amount 0 included, has is_fully_paid = (net_total = 0 or advance_paid >=
\* net_total), with net_total = max(0, total_amount - discount_price).
C28_FullyPaidAlways == \A id \in DOMAIN orders : FullyPaidRule(orders[id])

\* C28: in every state every order obeys the fully-paid rule, except an order with
\* total_amount 0 that has had no seller update and no completion: it has
\* is_fully_paid false, both amounts 0, no date and no invoice.
C28_FullyPaidUnlessUntouchedZero ==
    \A id \in DOMAIN orders :
        IF orders[id].total_amount = 0 /\ ~orders[id].is_fully_paid
        THEN /\ orders[id].status # "completed"
             /\ orders[id].discount_price = 0
             /\ orders[id].advance_paid = 0
             /\ orders[id].full_payment_date = NoDate
             /\ orders[id].invoice_file = NoFile
        ELSE FullyPaidRule(orders[id])

\* An accepted order with total_amount 0 that is still not marked fully paid.
C28_Witness ==
    \E id \in DOMAIN orders :
        /\ orders[id].total_amount = 0
        /\ orders[id].status = "accepted"
        /\ ~orders[id].is_fully_paid

\* C29: in every state, an order that is marked fully paid has a
\* full_payment_date.
C29_FullyPaidDated ==
    \A id \in DOMAIN orders :
        orders[id].is_fully_paid => orders[id].full_payment_date # NoDate

\* The buyer completed an order with nothing to pay that carried no amounts: it is
\* marked fully paid and dated.
C29_Witness ==
    /\ last.op = "buyer_update" /\ last.status = 200 /\ last.detail = "completed"
    /\ last.id \in DOMAIN orders
    /\ orders[last.id].status = "completed"
    /\ orders[last.id].total_amount = 0
    /\ orders[last.id].is_fully_paid
    /\ orders[last.id].full_payment_date = today

\* C30: a request addressed to the acting user's own profile slug is resolved to
\* that user, also when another user of the same role has the same slug: the
\* owning seller's Accept succeeds and the owning buyer's update of a pending or
\* accepted order is neither 403 nor 404.
C30_OwnSlugResolves ==
    [][last'.op \in {"accept", "buyer_update"}
       => \A actor \in Users :
             /\ UserRow(actor).user_type = "seller"
                => \A id \in DOMAIN orders :
                      orders[id].seller = actor /\ Accept(actor, OwnSlug(actor), id)
                      => last'.status = 200
             /\ UserRow(actor).user_type = "customer"
                => \A id \in DOMAIN orders :
                      /\ orders[id].buyer = actor
                      /\ orders[id].status \in {"pending", "accepted"}
                      /\ BuyerUpdate(actor, OwnSlug(actor), id)
                      => last'.status \notin {403, 404}]_vars

====
